---- MODULE Spec2Model ----
(***************************************************************************)
(* Model of MCPClient (src/public/index.html, lines 422-807): the          *)
(* WebSocket request/response client with request correlation, heartbeat  *)
(* and reconnection.                                                       *)
(*                                                                         *)
(* Every task of the single-threaded event loop is one action: a public    *)
(* call (connect, disconnect, sendChatMessage, getSystemHealth), a timer   *)
(* callback, or a socket event handler, each with the promise reactions    *)
(* (microtasks) that run before the next task.  The handlers are written   *)
(* as operators from a client-state record to a client-state record, so    *)
(* that a handler that calls another one is the composition of the two.    *)
(*                                                                         *)
(* The WebSocket objects are modelled as a pool of slots.  A socket whose  *)
(* close event has been dispatched and which is no longer referenced by    *)
(* this.websocket can run no handler any more; its slot is recycled.       *)
(***************************************************************************)
EXTENDS FiniteSets, Integers, Sequences, TLC

\* ---------------------------------------------------------------- bounds
MaxSockets == 2
MaxMessageId == 2
MaxReconnectTimers == 1
MaxIntervals == 2

\* ------------------------------------------------------ program constants
maxReconnectAttempts == 5
retryDelay == 1000
NORMAL_CLOSURE == 1000

\* config.retryAttempts, the configured maximum of reconnection attempts
\* (its default); no method of the client reads it
retryAttempts == 3

\* config.enableFallback, the only switch of MCPConfig: the modelled client is
\* constructed with { enableFallback: false }; no method of the client reads it
enableFallback == FALSE

\* the codes of the close events the transport dispatches in the model: the
\* normal closure, 1005 for a closing handshake that carried no status
\* (close() without arguments) and 1006 for a connection that failed
CloseCodes == {NORMAL_CLOSURE, 1005, 1006}

VARIABLES
    connectionState,    \* this.connectionState
    messageId,          \* this.messageId
    pendingRequests,    \* keys of this.pendingRequests
    reqTimers,          \* identifiers whose deadline timer (setTimeout) is armed
    reconnectAttempts,  \* this.reconnectAttempts
    heartbeatInterval,  \* TRUE iff this.heartbeatInterval holds a handle
    intervals,          \* number of armed setInterval timers of startHeartbeat
    websocket,          \* this.websocket: a socket slot, or 0 for undefined
    socks,              \* the WebSocket objects created by connect()
    reconnectTimers,    \* number of armed reconnection delay timers
    requests,           \* per identifier: the promise returned by sendMessage
    emitted,            \* connectionStateChange events emitted by the last task
    settled,            \* <<id, outcome>> of the promises the last task settled
    written,            \* identifiers the last task wrote with websocket.send
    scheduled,          \* delays of the reconnection timers the last task armed
    wsEnv,              \* the execution environment (constant after Init)
    lastOp              \* the task that ran last, its argument and its result

vars == <<connectionState, messageId, pendingRequests, reqTimers,
          reconnectAttempts, heartbeatInterval, intervals, websocket, socks,
          reconnectTimers, requests, emitted, settled, written, scheduled,
          wsEnv, lastOp>>

Slots == 1..MaxSockets
Ids == 1..MaxMessageId

MCPConnectionState == {"disconnected", "connecting", "connected", "error", "reconnecting"}

Methods == {"chat.completion", "system.health", "system.ping"}

\* a slot holding no socket
\* rs: readyState; timer: connectionTimeout is armed; waiter: who awaits the
\* still unsettled promise of the connect() call that created the socket
\* ("explicit" caller, "reconnect" timer callback, "none" once settled);
\* code, err: the close event, and the error event before it, that the
\* transport has still to dispatch
FreeSock == [rs |-> "NONE", timer |-> FALSE, waiter |-> "none",
             code |-> 0, err |-> FALSE]

\* an identifier that generateMessageId has not produced yet
NoRequest == [method |-> "none", outcome |-> "unallocated", settles |-> 0]

\* the fields of the client as one record
Cur == [connectionState |-> connectionState, messageId |-> messageId,
        pendingRequests |-> pendingRequests, reqTimers |-> reqTimers,
        reconnectAttempts |-> reconnectAttempts,
        heartbeatInterval |-> heartbeatInterval, intervals |-> intervals,
        websocket |-> websocket, socks |-> socks,
        reconnectTimers |-> reconnectTimers, requests |-> requests,
        emitted |-> <<>>, settled |-> {}, written |-> {}, scheduled |-> <<>>,
        result |-> "ok"]

\* a closed socket that this.websocket no longer references is forgotten
Recycle(st) ==
    [st EXCEPT !.socks = [s \in Slots |->
        IF st.socks[s].rs = "CLOSED" /\ st.websocket # s THEN FreeSock
        ELSE st.socks[s]]]

\* the task name with argument arg has run and has left the client as st
Apply(st, name, arg) ==
    \E r \in {Recycle(st)} :
    /\ connectionState' = r.connectionState
    /\ messageId' = r.messageId
    /\ pendingRequests' = r.pendingRequests
    /\ reqTimers' = r.reqTimers
    /\ reconnectAttempts' = r.reconnectAttempts
    /\ heartbeatInterval' = r.heartbeatInterval
    /\ intervals' = r.intervals
    /\ websocket' = r.websocket
    /\ socks' = r.socks
    /\ reconnectTimers' = r.reconnectTimers
    /\ requests' = r.requests
    /\ emitted' = r.emitted
    /\ settled' = r.settled
    /\ written' = r.written
    /\ scheduled' = r.scheduled
    /\ lastOp' = [op |-> name, arg |-> arg, res |-> r.result]
    /\ UNCHANGED wsEnv

\* ------------------------------------------------------------- the client

\* mutant: the notification is emitted even when the value does not change
setConnectionState_alwaysEmits(st, state) ==
    [st EXCEPT !.connectionState = state, !.emitted = Append(@, state)]

\* mutant: the value is stored but no notification is emitted
setConnectionState_silent(st, state) ==
    [st EXCEPT !.connectionState = state]

setConnectionState(st, state) ==
    IF st.connectionState # state
    THEN [st EXCEPT !.connectionState = state, !.emitted = Append(@, state)]
    ELSE st

\* mutant: the readyState of the transport is not consulted
isConnected_stateOnly(st) ==
    st.connectionState = "connected"

\* mutant: any transport handle counts as an open connection
isConnected_anySocket(st) ==
    st.connectionState = "connected" /\ st.websocket # 0

isConnected(st) ==
    /\ st.connectionState = "connected"
    /\ st.websocket # 0
    /\ st.socks[st.websocket].rs = "OPEN"

startHeartbeat(st) ==
    [st EXCEPT !.heartbeatInterval = TRUE, !.intervals = @ + 1]

stopHeartbeat(st) ==
    IF st.heartbeatInterval
    THEN [st EXCEPT !.heartbeatInterval = FALSE, !.intervals = @ - 1]
    ELSE st

\* WebSocket.close(code) called on a socket, and the failure of a handshake:
\* a socket that is still connecting fails (error event, then close event
\* with code 1006), an open socket starts the closing handshake with the
\* given code, a closing or closed socket is left alone
closeSocket(sock, code) ==
    IF sock.rs = "CONNECTING"
    THEN [sock EXCEPT !.rs = "CLOSING", !.err = TRUE, !.code = 1006]
    ELSE IF sock.rs = "OPEN"
    THEN [sock EXCEPT !.rs = "CLOSING", !.code = code]
    ELSE sock

\* a call of the resolve or reject function of the promise of request id;
\* outcome is <<kind>> or <<kind, detail>>, and the last task's calls are
\* kept in full in settled.  Only the first call settles the promise; of a
\* settled request the model remembers the number of calls and whether the
\* deadline settled it ("expired") or something else did ("settled")
settle(st, id, outcome) ==
    [st EXCEPT !.requests[id] =
                  [method |-> "none",
                   outcome |-> IF @.outcome # "pending" THEN @.outcome
                               ELSE IF outcome[1] = "MCP request timeout" THEN "expired"
                               ELSE "settled",
                   settles |-> @.settles + 1],
               !.settled = @ \cup {<<id, outcome>>}]

\* mutant: the attempt is counted but its timer is never armed
handleReconnection_armsNothing(st) ==
    IF st.reconnectAttempts >= maxReconnectAttempts
    THEN setConnectionState(st, "error")
    ELSE [setConnectionState(st, "reconnecting") EXCEPT !.reconnectAttempts = @ + 1]

\* mutant: the delay is computed from the counter after the increment
handleReconnection_lateDelay(st) ==
    IF st.reconnectAttempts >= maxReconnectAttempts
    THEN setConnectionState(st, "error")
    ELSE LET s1 == setConnectionState(st, "reconnecting")
             n == s1.reconnectAttempts + 1
             delay == retryDelay * 2 ^ n
         IN [s1 EXCEPT !.reconnectAttempts = n,
                       !.reconnectTimers = @ + 1,
                       !.scheduled = Append(@, delay)]

handleReconnection(st) ==
    IF st.reconnectAttempts >= maxReconnectAttempts
    THEN setConnectionState(st, "error")
    ELSE LET s1 == setConnectionState(st, "reconnecting")
             n == s1.reconnectAttempts + 1
             delay == retryDelay * 2 ^ (n - 1)
         IN [s1 EXCEPT !.reconnectAttempts = n,
                       !.reconnectTimers = @ + 1,
                       !.scheduled = Append(@, delay)]

\* reject(...) of the promise returned by the connect() call that created
\* socket s, followed by the reaction of its awaiter: the reconnection
\* timer's callback catches the rejection and calls handleReconnection()
rejectConnect(st, s) ==
    LET s1 == [st EXCEPT !.socks[s].waiter = "none"]
    IN IF st.socks[s].waiter = "reconnect"
       THEN handleReconnection(s1)
       ELSE s1

RECURSIVE rejectAll(_, _)
rejectAll(st, ids) ==
    IF ids = {} THEN st
    ELSE LET id == CHOOSE i \in ids : \A j \in ids : i <= j
             s1 == [st EXCEPT !.reqTimers = @ \ {id}]
         IN rejectAll(settle(s1, id, <<"Connection closed">>), ids \ {id})

\* mutant: disconnect() also resets the reconnection counter
disconnect_resetsAttempts(st) ==
    LET s1 == stopHeartbeat(st)
        s2 == IF s1.websocket # 0
              THEN [s1 EXCEPT !.socks[s1.websocket] = closeSocket(@, NORMAL_CLOSURE),
                              !.websocket = 0]
              ELSE s1
        s3 == rejectAll(s2, s2.pendingRequests)
        s4 == [s3 EXCEPT !.pendingRequests = {}, !.reconnectAttempts = 0]
    IN setConnectionState(s4, "disconnected")

\* mutant: the pending map is cleared without rejecting its entries
disconnect_dropsPending(st) ==
    LET s1 == stopHeartbeat(st)
        s2 == IF s1.websocket # 0
              THEN [s1 EXCEPT !.socks[s1.websocket] = closeSocket(@, NORMAL_CLOSURE),
                              !.websocket = 0]
              ELSE s1
        s4 == [s2 EXCEPT !.pendingRequests = {}, !.reqTimers = {}]
    IN setConnectionState(s4, "disconnected")

disconnect(st) ==
    LET s1 == stopHeartbeat(st)
        s2 == IF s1.websocket # 0
              THEN [s1 EXCEPT !.socks[s1.websocket] = closeSocket(@, NORMAL_CLOSURE),
                              !.websocket = 0]
              ELSE s1
        s3 == rejectAll(s2, s2.pendingRequests)
        s4 == [s3 EXCEPT !.pendingRequests = {}]
    IN setConnectionState(s4, "disconnected")


\* the body of the promise executor of sendMessage
\* mutant: when send() throws the entry is deleted but its timer stays armed
sendMessage_keepsTimerOnThrow(st, id, method, throws) ==
    LET s0 == [st EXCEPT !.requests[id] =
                  [method |-> method, outcome |-> "pending", settles |-> 0]]
    IN IF ~isConnected(s0) \/ s0.websocket = 0
       THEN settle(s0, id, <<"MCP client not connected">>)
       ELSE LET s1 == [s0 EXCEPT !.reqTimers = @ \cup {id},
                                 !.pendingRequests = @ \cup {id}]
            IN IF throws
               THEN settle([s1 EXCEPT !.pendingRequests = @ \ {id}],
                           id, <<"send failed">>)
               ELSE [s1 EXCEPT !.written = @ \cup {id}, !.result = "sent"]

sendMessage(st, id, method, throws) ==
    LET s0 == [st EXCEPT !.requests[id] =
                  [method |-> method, outcome |-> "pending", settles |-> 0]]
    IN IF ~isConnected(s0) \/ s0.websocket = 0
       THEN settle(s0, id, <<"MCP client not connected">>)
       ELSE LET s1 == [s0 EXCEPT !.reqTimers = @ \cup {id},
                                 !.pendingRequests = @ \cup {id}]
            IN IF throws
               THEN settle([s1 EXCEPT !.pendingRequests = @ \ {id},
                                      !.reqTimers = @ \ {id}],
                           id, <<"send failed">>)
               ELSE [s1 EXCEPT !.written = @ \cup {id}, !.result = "sent"]

\* mutant: the counter is read but not advanced
generateMessageId_reuses(st) ==
    IF st.messageId = 0 THEN 1 ELSE st.messageId

\* `mcp_${Date.now()}_${++this.messageId}`: the two numbers are separated by
\* "_", so the string determines the counter value; the model names an
\* identifier by that value
generateMessageId(st) == st.messageId + 1

\* sendChatMessage and getSystemHealth: the identifier is generated only
\* after the isConnected() check
sendRequest(st, method, throws) ==
    IF ~isConnected(st)
    THEN [st EXCEPT !.result = "MCP client not connected"]
    ELSE LET id == generateMessageId(st)
         IN sendMessage([st EXCEPT !.messageId = id], id, method, throws)

\* mutant: a probe that cannot be sent starts the reconnection scheduler
ping_reconnectsOnFailure(st, throws) ==
    LET id == generateMessageId(st)
        s1 == sendMessage([st EXCEPT !.messageId = id], id, "system.ping", throws)
    IN IF throws THEN handleReconnection(s1) ELSE s1

\* the rejection of sendMessage is caught and logged
ping(st, throws) ==
    LET id == generateMessageId(st)
    IN sendMessage([st EXCEPT !.messageId = id], id, "system.ping", throws)

\* mutant: the deadline rejects the promise but leaves the entry in the map
requestTimeout_keepsEntry(st, id) ==
    LET s1 == [st EXCEPT !.reqTimers = @ \ {id}]
    IN settle(s1, id, <<"MCP request timeout", st.requests[id].method>>)

\* the callback of the deadline timer armed by sendMessage
requestTimeout(st, id) ==
    LET s1 == [st EXCEPT !.reqTimers = @ \ {id},
                         !.pendingRequests = @ \ {id}]
    IN settle(s1, id, <<"MCP request timeout", st.requests[id].method>>)

handleNotification(st, msg) ==
    IF msg.method = "server.shutdown" THEN disconnect(st) ELSE st

\* mutant: a response settles every pending request
handleIncomingMessage_settlesAll(st, msg) ==
    IF msg.type = "response" /\ msg.id # 0
    THEN IF msg.id \in st.pendingRequests
         THEN rejectAll([st EXCEPT !.reqTimers = {}, !.pendingRequests = {}],
                        st.pendingRequests)
         ELSE st
    ELSE IF msg.type = "notification"
    THEN handleNotification(st, msg)
    ELSE st

\* mutant: the deadline timer of a matched request is not cleared
handleIncomingMessage_keepsTimer(st, msg) ==
    IF msg.type = "response" /\ msg.id # 0
    THEN IF msg.id \in st.pendingRequests
         THEN LET s1 == [st EXCEPT !.pendingRequests = @ \ {msg.id}]
              IN IF msg.error
                 THEN settle(s1, msg.id, <<"MCP Error">>)
                 ELSE settle(s1, msg.id, <<"resolved">>)
         ELSE st
    ELSE IF msg.type = "notification"
    THEN handleNotification(st, msg)
    ELSE st

handleIncomingMessage(st, msg) ==
    IF msg.type = "response" /\ msg.id # 0
    THEN IF msg.id \in st.pendingRequests
         THEN LET s1 == [st EXCEPT !.reqTimers = @ \ {msg.id},
                                   !.pendingRequests = @ \ {msg.id}]
              IN IF msg.error
                 THEN settle(s1, msg.id, <<"MCP Error">>)
                 ELSE settle(s1, msg.id, <<"resolved">>)
         ELSE st
    ELSE IF msg.type = "notification"
    THEN handleNotification(st, msg)
    ELSE st

\* mutant: a frame that does not parse ends the connection
onmessage_garbageDisconnects(st, frame) ==
    IF frame.parses
    THEN handleIncomingMessage([st EXCEPT !.result =
                                   IF frame.msg.type = "notification"
                                   THEN frame.msg.method ELSE frame.msg.type],
                               frame.msg)
    ELSE disconnect([st EXCEPT !.result = "unparsable"])

\* websocket.onmessage: a frame that does not parse is logged and dropped
onmessage(st, frame) ==
    IF frame.parses
    THEN handleIncomingMessage([st EXCEPT !.result =
                                   IF frame.msg.type = "notification"
                                   THEN frame.msg.method ELSE frame.msg.type],
                               frame.msg)
    ELSE [st EXCEPT !.result = "unparsable"]

\* connect(), creating its socket in slot s
connect(st, origin, s, env) ==
    LET s1 == setConnectionState(st, "connecting")
    IN IF env = "unsupported"
       THEN [setConnectionState(s1, "error") EXCEPT !.result = "false"]
       ELSE IF env = "badEndpoint"
       THEN LET s2 == [setConnectionState(s1, "error") EXCEPT !.result = "rejected"]
            IN IF origin = "reconnect" THEN handleReconnection(s2) ELSE s2
       ELSE [s1 EXCEPT !.result = "pending",
                       !.websocket = s,
                       !.socks[s] = [rs |-> "CONNECTING", timer |-> TRUE,
                                     waiter |-> origin,
                                     code |-> 0, err |-> FALSE]]

\* the callback of connectionTimeout of the connect() call that created s
connectionTimeout(st, s) ==
    LET s1 == [st EXCEPT !.socks[s].timer = FALSE,
                         !.result = "MCP connection timeout"]
        s2 == IF s1.websocket # 0
              THEN [s1 EXCEPT !.socks[s1.websocket] = closeSocket(@, 1005)]
              ELSE s1
    IN rejectConnect(s2, s)

onopen(st, s) ==
    LET s1 == [st EXCEPT !.socks[s].timer = FALSE]
        s2 == setConnectionState(s1, "connected")
        s3 == [s2 EXCEPT !.reconnectAttempts = 0]
        s4 == startHeartbeat(s3)
    IN [s4 EXCEPT !.socks[s].waiter = "none"]

\* mutant: every close event starts the reconnection scheduler
onclose_alwaysReconnects(st, s, code) ==
    LET s1 == [st EXCEPT !.socks[s].timer = FALSE]
        s2 == setConnectionState(s1, "disconnected")
        s3 == stopHeartbeat(s2)
    IN handleReconnection([s3 EXCEPT !.result =
                              IF code # NORMAL_CLOSURE THEN "abnormal" ELSE "normal"])

onclose(st, s, code) ==
    LET s1 == [st EXCEPT !.socks[s].timer = FALSE]
        s2 == setConnectionState(s1, "disconnected")
        s3 == stopHeartbeat(s2)
    IN IF code # NORMAL_CLOSURE
       THEN handleReconnection([s3 EXCEPT !.result = "abnormal"])
       ELSE [s3 EXCEPT !.result = "normal"]

\* mutant: the error handler records the error but does not reject
onerror_noReject(st, s) ==
    LET s1 == [st EXCEPT !.socks[s].timer = FALSE]
    IN setConnectionState(s1, "error")

onerror(st, s) ==
    LET s1 == [st EXCEPT !.socks[s].timer = FALSE]
        s2 == setConnectionState(s1, "error")
    IN rejectConnect(s2, s)

getStats(st) ==
    [state |-> st.connectionState,
     reconnectAttempts |-> st.reconnectAttempts,
     pendingRequests |-> Cardinality(st.pendingRequests),
     isConnected |-> isConnected(st)]

\* ------------------------------------------------------------ the actions

TypeOfInit ==
    /\ connectionState = "disconnected"
    /\ messageId = 0
    /\ pendingRequests = {}
    /\ reqTimers = {}
    /\ reconnectAttempts = 0
    /\ heartbeatInterval = FALSE
    /\ intervals = 0
    /\ websocket = 0
    /\ socks = [s \in Slots |-> FreeSock]
    /\ reconnectTimers = 0
    /\ requests = [i \in Ids |-> NoRequest]
    /\ emitted = <<>>
    /\ settled = {}
    /\ written = {}
    /\ scheduled = <<>>
    /\ lastOp = [op |-> "new", arg |-> 0, res |-> "ok"]

Init ==
    /\ TypeOfInit
    /\ wsEnv \in {"ok", "unsupported", "badEndpoint"}

\* the bounds of the model: a task runs only if its result stays within them
Within(st) ==
    /\ st.messageId <= MaxMessageId
    /\ st.reconnectTimers <= MaxReconnectTimers
    /\ st.intervals <= MaxIntervals

Step(st, name, arg) ==
    \E r \in {st} : Within(r) /\ Apply(r, name, arg)

FreeSlot(s) ==
    /\ socks[s].rs = "NONE"
    /\ \A t \in Slots : socks[t].rs = "NONE" => s <= t

Connect ==
    \E s \in Slots :
        /\ FreeSlot(s)
        /\ Step(connect(Cur, "explicit", s, wsEnv), "connect", s)

\* arg 1: the task before this one was disconnect() as well
Disconnect ==
    \E again \in {IF lastOp.op = "disconnect" THEN 1 ELSE 0} :
        Step(disconnect(Cur), "disconnect", again)

\* sendChatMessage(request) and getSystemHealth()
Send ==
    \E method \in {"chat.completion", "system.health"}, throws \in BOOLEAN :
        /\ IF isConnected(Cur) THEN messageId < MaxMessageId ELSE ~throws
        /\ Step(sendRequest(Cur, method, throws), "send",
                IF isConnected(Cur) THEN generateMessageId(Cur) ELSE 0)

\* the callback of a heartbeat interval
HeartbeatTick ==
    \E throws \in BOOLEAN :
        /\ intervals > 0
        /\ IF isConnected(Cur)
           THEN /\ messageId < MaxMessageId
                /\ Step(ping(Cur, throws), "heartbeat", generateMessageId(Cur))
           ELSE ~throws /\ Step(Cur, "heartbeat", 0)

RequestTimeout ==
    \E id \in reqTimers :
        Step(requestTimeout(Cur, id), "requestTimeout", id)

Frames ==
    {[parses |-> FALSE, msg |-> [type |-> "none", id |-> 0, error |-> FALSE, method |-> "none"]]}
    \cup {[parses |-> TRUE, msg |-> [type |-> "response", id |-> i, error |-> e, method |-> "none"]] :
            i \in Ids, e \in BOOLEAN}
    \cup {[parses |-> TRUE, msg |-> [type |-> "notification", id |-> 0, error |-> FALSE, method |-> m]] :
            m \in {"server.shutdown", "system.health"}}

\* a frame arrives on a socket that is open
Receive ==
    \E s \in Slots, frame \in Frames :
        /\ socks[s].rs = "OPEN"
        /\ Step(onmessage(Cur, frame), "message", frame.msg.id)

\* the callback of a reconnection delay timer
ReconnectTimer ==
    \E s \in Slots :
        /\ reconnectTimers > 0
        /\ FreeSlot(s)
        /\ Step(connect([Cur EXCEPT !.reconnectTimers = @ - 1], "reconnect", s, wsEnv),
                "reconnectTimer", s)

ConnectionTimeout ==
    \E s \in Slots :
        /\ socks[s].timer
        /\ Step(connectionTimeout(Cur, s), "connectionTimeout", s)

\* the transport: the handshake completes and the open event is dispatched
SockOpen ==
    \E s \in Slots :
        /\ socks[s].rs = "CONNECTING"
        /\ Step(onopen([Cur EXCEPT !.socks[s].rs = "OPEN"], s), "open", s)

\* the transport: the handshake fails
SockFail ==
    \E s \in Slots :
        /\ socks[s].rs = "CONNECTING"
        /\ Step([Cur EXCEPT !.socks[s] = closeSocket(@, 1006)], "fail", s)

\* the transport: the peer closes an open connection, or the connection is lost
RemoteClose ==
    \E s \in Slots, code \in {NORMAL_CLOSURE, 1006}, err \in BOOLEAN :
        /\ socks[s].rs = "OPEN"
        /\ err => code = 1006
        /\ Step([Cur EXCEPT !.socks[s] = [@ EXCEPT !.rs = "CLOSING", !.code = code, !.err = err]],
                "closing", s)

\* the error event of a failed connection is dispatched
DeliverError ==
    \E s \in Slots :
        /\ socks[s].rs = "CLOSING"
        /\ socks[s].err
        /\ Step(onerror([Cur EXCEPT !.socks[s].err = FALSE], s), "error", s)

\* the close event is dispatched
DeliverClose ==
    \E s \in Slots :
        /\ socks[s].rs = "CLOSING"
        /\ ~socks[s].err
        /\ Step(onclose([Cur EXCEPT !.socks[s].rs = "CLOSED"], s, socks[s].code), "close", s)

Next ==
    \/ Connect
    \/ Disconnect
    \/ Send
    \/ HeartbeatTick
    \/ RequestTimeout
    \/ Receive
    \/ ReconnectTimer
    \/ ConnectionTimeout
    \/ SockOpen
    \/ SockFail
    \/ RemoteClose
    \/ DeliverError
    \/ DeliverClose

Spec == Init /\ [][Next]_vars

\* ---------------------------------------------- the fair specification
\* Blocking a handler at the bound of armed reconnection timers would stop
\* timer callbacks and event handlers for good, so under fairness the count
\* saturates instead: MaxReconnectTimers stands for "that many or more", a
\* handler that arms one more leaves it there, and a callback that fires
\* from there leaves either that many or one fewer.  Every behaviour of the
\* client is kept; behaviours with more timers than the client armed are added.
Saturated(st) ==
    [st EXCEPT !.reconnectTimers =
        IF @ > MaxReconnectTimers THEN MaxReconnectTimers ELSE @]

\* connect() overwrites this.websocket: a closed socket it still refers to
\* is dropped then, so its slot can take the new socket
ReusableSlot(s) ==
    /\ socks[s].rs \in {"NONE", "CLOSED"}
    /\ \A t \in Slots : socks[t].rs \in {"NONE", "CLOSED"} => s <= t

FairReconnectTimer ==
    \E s \in Slots,
       left \in {reconnectTimers - 1} \cup
                (IF reconnectTimers = MaxReconnectTimers THEN {reconnectTimers} ELSE {}) :
        /\ reconnectTimers > 0
        /\ ReusableSlot(s)
        /\ Step(Saturated(connect([Cur EXCEPT !.reconnectTimers = left], "reconnect", s, wsEnv)),
                "reconnectTimer", s)

ConnectionTimeoutOf(s) ==
    /\ socks[s].timer
    /\ Step(Saturated(connectionTimeout(Cur, s)), "connectionTimeout", s)

FairConnectionTimeout ==
    \E s \in Slots : ConnectionTimeoutOf(s)

FairDeliverError ==
    \E s \in Slots :
        /\ socks[s].rs = "CLOSING"
        /\ socks[s].err
        /\ Step(Saturated(onerror([Cur EXCEPT !.socks[s].err = FALSE], s)), "error", s)

FairDeliverClose ==
    \E s \in Slots :
        /\ socks[s].rs = "CLOSING"
        /\ ~socks[s].err
        /\ Step(Saturated(onclose([Cur EXCEPT !.socks[s].rs = "CLOSED"], s, socks[s].code)),
                "close", s)

\* the connection lifecycle: the tasks that read or write a socket, its
\* connection-open timer or the promise of its connect() call.  Requests are
\* left to Spec; a server.shutdown notification acts as Disconnect does.
NextFair ==
    \/ Connect
    \/ Disconnect
    \/ FairReconnectTimer
    \/ FairConnectionTimeout
    \/ SockOpen
    \/ SockFail
    \/ RemoteClose
    \/ FairDeliverError
    \/ FairDeliverClose

\* timers that are armed fire and events that are queued are dispatched:
\* the event loop runs every callback that is due.  Nothing is assumed of
\* the caller or of the network.
FairSpec ==
    /\ Init
    /\ [][NextFair]_vars
    /\ \A s \in Slots : WF_vars(ConnectionTimeoutOf(s))
    /\ WF_vars(FairReconnectTimer)
    /\ WF_vars(FairDeliverError)
    /\ WF_vars(FairDeliverClose)

TypeOK ==
    /\ connectionState \in MCPConnectionState
    /\ messageId \in 0..MaxMessageId
    /\ pendingRequests \subseteq Ids
    /\ reqTimers \subseteq Ids
    /\ reconnectAttempts \in 0..maxReconnectAttempts
    /\ intervals \in 0..MaxIntervals
    /\ websocket \in 0..MaxSockets
    /\ reconnectTimers \in 0..MaxReconnectTimers
    /\ \A s \in Slots : socks[s].code \in CloseCodes \cup {0}


\* ------------------------------------------------------------- the claims

\* the transport handle the client holds reports an open connection
TransportOpen == websocket # 0 /\ socks[websocket].rs = "OPEN"

\* the last task was a disconnect(), called by the owner or by the handler
\* of the server.shutdown notification
DisconnectRan(op) ==
    \/ op.op = "disconnect"
    \/ op.op = "message" /\ op.res = "server.shutdown"

\* C1: whatever the interleaving of responses, deadline timers, send failures
\* and disconnect(), the promise of a request is settled at most once, a
\* promise is settled only in the task that removes its entry from the
\* pending map (or that registered it, when the send throws), and an entry
\* never leaves the map without its promise being settled in that task.
C1_DestroyedExactlyOnce ==
    [][\A id \in Ids :
        /\ requests'[id].settles <= 1
        /\ requests'[id].settles > requests[id].settles =>
              /\ id \notin pendingRequests'
              /\ id \in pendingRequests \/ requests[id].outcome = "unallocated"
        /\ (id \in pendingRequests /\ id \notin pendingRequests') =>
              requests'[id].settles = requests[id].settles + 1]_vars

\* C1 witness: one request was destroyed by its deadline and disconnect()
\* has just destroyed another one
C1_Witness ==
    /\ lastOp.op = "disconnect"
    /\ settled # {}
    /\ \E id \in Ids : requests[id].outcome = "expired"

C3_SendWhileNotConnected ==
    [][(lastOp'.op = "send" /\ (connectionState # "connected" \/ ~TransportOpen)) =>
        /\ lastOp'.res = "MCP client not connected"
        /\ pendingRequests' = pendingRequests
        /\ reqTimers' = reqTimers
        /\ requests' = requests
        /\ messageId' = messageId
        /\ written' = {}]_vars

\* C3 witness: a send was refused while the state still read connected
\* (the socket was closing) and another request was pending
C3_Witness ==
    /\ lastOp.op = "send"
    /\ lastOp.res = "MCP client not connected"
    /\ connectionState = "connected"
    /\ pendingRequests # {}

\* C4: the deadline of a request rejects it with the request-timeout error
\* that names the request's method and removes its entry in the same task;
\* from then on nothing, a late response included, settles it again.
C4_TimeoutRemovesEntry ==
    [][/\ lastOp'.op = "requestTimeout" =>
            /\ requests[lastOp'.arg].method \in Methods
            /\ settled' = {<<lastOp'.arg,
                             <<"MCP request timeout", requests[lastOp'.arg].method>>>>}
            /\ requests'[lastOp'.arg].outcome = "expired"
            /\ lastOp'.arg \notin pendingRequests'
            /\ lastOp'.arg \notin reqTimers'
       /\ \A id \in Ids : requests[id].outcome = "expired" =>
            /\ requests'[id] = requests[id]
            /\ \A e \in settled' : e[1] # id]_vars

\* C4 witness: a response arrived for a request that its deadline had
\* already rejected
C4_Witness ==
    /\ lastOp.op = "message"
    /\ lastOp.res = "response"
    /\ lastOp.arg \in Ids
    /\ requests[lastOp.arg].outcome = "expired"

\* what a caller can observe of the client after a call
Observable(st) ==
    <<st.connectionState, st.pendingRequests, st.reqTimers, st.heartbeatInterval,
      st.intervals, st.reconnectAttempts, st.reconnectTimers, st.websocket,
      st.socks, st.requests, st.emitted, st.settled, st.result>>

\* C5: from every reachable state, disconnect() called twice in a row leaves
\* the state, the pending map, the heartbeat, the reconnection counter and
\* the notifications emitted by the two calls together exactly as one call
\* leaves them, and the second call raises no error.
C5_DisconnectIdempotent ==
    Observable(disconnect(disconnect(Cur))) = Observable(disconnect(Cur))

\* C5 witness: disconnect() has run twice in a row
C5_Witness ==
    /\ lastOp.op = "disconnect"
    /\ lastOp.arg = 1
    /\ emitted = <<>>

\* C6 (as claimed): after the open event of a socket has been handled, the
\* state is connected, reached by one notification at most, the attempt
\* counter is 0, the heartbeat is started and isConnected() is true.
C6_OpenMakesConnected ==
    lastOp.op = "open" =>
        /\ connectionState = "connected"
        /\ Len(SelectSeq(emitted, LAMBDA e : e = "connected")) <= 1
        /\ reconnectAttempts = 0
        /\ heartbeatInterval
        /\ isConnected(Cur)

\* C7 (as claimed): when the open timeout of a connect() has fired, the call
\* has failed with the connection-timeout error, the state is error and
\* isConnected() is false.
C7_OpenTimeoutMakesError ==
    lastOp.op = "connectionTimeout" =>
        /\ lastOp.res = "MCP connection timeout"
        /\ connectionState = "error"
        /\ ~isConnected(Cur)

\* C8: in every reachable state isConnected(), and the isConnected field of
\* getStats(), is true exactly when the state is connected and the transport
\* handle the client holds reports an open connection.
C8_IsConnectedIff ==
    /\ isConnected(Cur) <=> (connectionState = "connected" /\ TransportOpen)
    /\ getStats(Cur).isConnected <=> (connectionState = "connected" /\ TransportOpen)

\* C8 witness: the socket has started closing, its close event has not been
\* handled, the state still reads connected and isConnected() is false
C8_Witness ==
    /\ connectionState = "connected"
    /\ websocket # 0
    /\ socks[websocket].rs = "CLOSING"
    /\ lastOp.op = "closing"
    /\ ~getStats(Cur).isConnected

\* the transitions of the specified state machine; connect() is allowed to
\* leave any state, so that only the transitions made by events and timers
\* are judged
SpecifiedTransition(from, to, op) ==
    \/ to = "connecting" /\ op.op = "connect"
    \/ from = "connecting" /\ to = "connected" /\ op.op = "open"
    \/ from = "connecting" /\ to = "error"
    \/ from = "connected" /\ to \in {"reconnecting", "disconnected"} /\ op.op = "close"
    \/ from = "reconnecting" /\ to = "connected" /\ op.op = "open"
    \/ from = "reconnecting" /\ to = "error"
    \/ to = "disconnected" /\ DisconnectRan(op)

\* C9 (as claimed): every change of the connection state made by a task is
\* a transition of the specified state machine.
C9_OnlySpecifiedTransitions ==
    [][\A i \in 1..Len(emitted') :
        SpecifiedTransition(IF i = 1 THEN connectionState ELSE emitted'[i - 1],
                            emitted'[i], lastOp')]_vars

\* C10 (as claimed): while the state is error or disconnected, only a
\* connect() call by the owner changes the state or creates a socket
\* (disconnect() may still move error to disconnected).
C10_TerminalUntilConnect ==
    [][(connectionState \in {"error", "disconnected"} /\ lastOp'.op # "connect") =>
        /\ connectionState' = connectionState \/ DisconnectRan(lastOp')
        /\ \A s \in Slots : socks'[s].rs = "CONNECTING" => socks[s].rs = "CONNECTING"]_vars

\* C11: the state changes only by notified transitions: starting from the
\* state before a task, the notifications the task emits never repeat the
\* value before them (a call with the current value emits nothing), each
\* carries the value the state then has, and the last one is the state the
\* task leaves; so two consecutive notifications never carry the same value.
C11_NotifiedTransitions ==
    [][LET chain == <<connectionState>> \o emitted'
       IN /\ chain[Len(chain)] = connectionState'
          /\ \A i \in 1..(Len(chain) - 1) : chain[i] # chain[i + 1]]_vars

\* C11 witness: the close event of a socket dropped by disconnect() called
\* setConnectionState("disconnected") with the current value, which emitted
\* nothing, and then moved the state to reconnecting with one notification
C11_Witness ==
    /\ lastOp.op = "close"
    /\ lastOp.res = "abnormal"
    /\ emitted = <<"reconnecting">>

\* C12 (as claimed): the attempt counter never exceeds the configured
\* maximum config.retryAttempts, and no delay beyond the one of the last
\* configured attempt is ever scheduled.
C12_CeilingIsConfigured ==
    /\ reconnectAttempts <= retryAttempts
    /\ \A i \in 1..Len(scheduled) :
          scheduled[i] <= retryDelay * 2 ^ (retryAttempts - 1)

\* C13: a task schedules at most one reconnection attempt; when it does, the
\* attempt counter grows by exactly 1 to n and the delay is
\* retryDelay * 2^(n-1), the value computed from the counter before the
\* increment; a task that schedules nothing does not increase the counter.
C13_BackoffDelay ==
    [][/\ Len(scheduled') <= 1
       /\ Len(scheduled') = 1 =>
             /\ reconnectAttempts' = reconnectAttempts + 1
             /\ scheduled'[1] = retryDelay * 2 ^ reconnectAttempts
             /\ scheduled'[1] = retryDelay * 2 ^ (reconnectAttempts' - 1)
             /\ reconnectTimers' = reconnectTimers + 1
                   \/ (lastOp'.op = "reconnectTimer" /\ reconnectTimers' = reconnectTimers)
       /\ Len(scheduled') = 0 => reconnectAttempts' <= reconnectAttempts]_vars

\* C13 witness: the third attempt since the last successful connection has
\* been scheduled, with delay 4000
C13_Witness ==
    /\ scheduled = <<4000>>
    /\ reconnectAttempts = 3

\* C14: the attempt counter decreases only in the handler of an open event,
\* which sets it to 0.
C14_ResetOnlyOnOpen ==
    [][reconnectAttempts' < reconnectAttempts =>
          lastOp'.op = "open" /\ reconnectAttempts' = 0]_vars

\* C14 witness: disconnect() has run after two scheduled attempts and the
\* counter still reads 2
C14_Witness ==
    /\ lastOp.op = "disconnect"
    /\ reconnectAttempts = 2
    /\ connectionState = "disconnected"

C16_NoReconnectWhenDisabled ==
    [][(/\ ~enableFallback
        /\ lastOp'.op = "close"
        /\ socks[lastOp'.arg].code # NORMAL_CLOSURE
        /\ connectionState = "connected") =>
          /\ connectionState' = "disconnected"
          /\ scheduled' = <<>>
          /\ reconnectTimers' = reconnectTimers]_vars

\* C17 (as claimed): when the close event of an abnormal closure has been
\* handled, the pending map is empty, no deadline timer is armed and the
\* heartbeat handle is cleared.
C17_AbnormalCloseFailsPending ==
    (lastOp.op = "close" /\ lastOp.res = "abnormal") =>
        /\ pendingRequests = {}
        /\ reqTimers = {}
        /\ ~heartbeatInterval

\* C18 (as claimed): when disconnect() has run, no deadline timer, no
\* heartbeat interval, no connection-open timer and no reconnection delay
\* timer is armed.
C18_DisconnectCancelsTimers ==
    lastOp.op = "disconnect" =>
        /\ reqTimers = {}
        /\ intervals = 0
        /\ reconnectTimers = 0
        /\ \A s \in Slots : ~socks[s].timer

\* C19: under FairSpec, whenever the promise of a connect() call is
\* pending (the socket the call created still has a waiter), it is eventually
\* resolved or rejected.
C19_ConnectSettles ==
    \A s \in Slots : (socks[s].waiter # "none") ~> (socks[s].waiter = "none")

\* C19 witness: the transport never answered and the connection-open timer
\* rejected the promise of an explicit connect() call
C19_Witness ==
    /\ lastOp.op = "connectionTimeout"
    /\ lastOp.res = "MCP connection timeout"
    /\ socks[lastOp.arg].rs = "CLOSING"
    /\ socks[lastOp.arg].waiter = "none"
    /\ connectionState = "connecting"

\* C20: a task that allocates an identifier (a send or a heartbeat probe,
\* through the same counter) takes one that was never allocated before and
\* is not in the pending map; only allocated identifiers are pending, and
\* every promise a task settles belongs to an allocated identifier.
C20_FreshIdentifiers ==
    [][/\ (lastOp'.op \in {"send", "heartbeat"} /\ lastOp'.arg # 0) =>
             /\ lastOp'.arg \in Ids
             /\ requests[lastOp'.arg].outcome = "unallocated"
             /\ lastOp'.arg \notin pendingRequests
             /\ \A id \in Ids : requests[id].outcome # "unallocated" => id < lastOp'.arg
             /\ requests'[lastOp'.arg].outcome # "unallocated"
       /\ \A id \in pendingRequests' : requests'[id].outcome = "pending"
       /\ \A e \in settled' :
             /\ requests'[e[1]].outcome \notin {"unallocated", "pending"}
             /\ Cardinality({f \in settled' : f[1] = e[1]}) = 1]_vars

\* C20 witness: a heartbeat probe was given identifier 2 while application
\* request 1 was still pending
C20_Witness ==
    /\ lastOp.op = "heartbeat"
    /\ lastOp.arg = 2
    /\ pendingRequests = {1, 2}
    /\ requests[1].method = "chat.completion"
    /\ requests[2].method = "system.ping"

\* the fields of a client state that a discarded frame must leave alone
ClientFields(st) ==
    <<st.connectionState, st.messageId, st.pendingRequests, st.reqTimers,
      st.reconnectAttempts, st.heartbeatInterval, st.intervals, st.websocket,
      st.socks, st.reconnectTimers, st.requests>>

\* C21: in every reachable state, a response frame whose identifier is in
\* the pending map settles that request only, resolved, or rejected with
\* "MCP Error" when it carries an error; the entry and its deadline timer
\* are removed, every other request keeps its entry, its timer and its
\* record, the pending count drops by exactly 1 and nothing else changes.
C21_ResponseSettlesItsRequest ==
    \A f \in Frames :
        (f.parses /\ f.msg.type = "response" /\ f.msg.id \in pendingRequests) =>
            LET id == f.msg.id
                r == onmessage(Cur, f)
            IN /\ r.settled = {<<id, IF f.msg.error THEN <<"MCP Error">> ELSE <<"resolved">>>>}
               /\ r.pendingRequests = pendingRequests \ {id}
               /\ r.reqTimers = reqTimers \ {id}
               /\ Cardinality(r.pendingRequests) = Cardinality(pendingRequests) - 1
               /\ \A j \in Ids \ {id} : r.requests[j] = requests[j]
               /\ r.requests[id].settles = 1
               /\ r.connectionState = connectionState
               /\ r.reconnectAttempts = reconnectAttempts
               /\ r.heartbeatInterval = heartbeatInterval
               /\ r.emitted = <<>>

\* C21 witness: requests 1 and 2 were pending, the response for 2 has been
\* handled: 2 is resolved, 1 is still pending with its deadline armed
C21_Witness ==
    /\ lastOp.op = "message"
    /\ lastOp.res = "response"
    /\ lastOp.arg = 2
    /\ settled = {<<2, <<"resolved">>>>}
    /\ pendingRequests = {1}
    /\ reqTimers = {1}

\* C22 (as claimed): when WebSocket is not supported, a connect() call,
\* by the caller or by a reconnection timer, ends as a rejection, with the
\* state error, no socket created and no connection-open timer armed.
C22_UnsupportedConnectFails ==
    (wsEnv = "unsupported" /\ lastOp.op \in {"connect", "reconnectTimer"}) =>
        /\ lastOp.res = "rejected"
        /\ connectionState = "error"
        /\ websocket = 0
        /\ \A s \in Slots : socks[s].rs = "NONE" /\ ~socks[s].timer

\* C23: in every reachable state, a frame that does not parse and a response
\* whose identifier is not in the pending map leave every field of the
\* client unchanged, emit no notification, settle no promise, write nothing
\* and arm nothing; the handler returns normally.
C23_UnmatchedFrameDiscarded ==
    \A f \in Frames :
        (~f.parses \/ (f.msg.type = "response" /\ f.msg.id \notin pendingRequests)) =>
            LET r == onmessage(Cur, f)
            IN /\ ClientFields(r) = ClientFields(Cur)
               /\ r.emitted = <<>>
               /\ r.settled = {}
               /\ r.written = {}
               /\ r.scheduled = <<>>
               /\ r.result \in {"unparsable", "response"}

\* C23 witness: request 1 expired at its deadline and its response arrived
\* afterwards, while request 2 was pending
C23_Witness ==
    /\ lastOp.op = "message"
    /\ lastOp.res = "response"
    /\ lastOp.arg = 1
    /\ requests[1].outcome = "expired"
    /\ settled = {}
    /\ pendingRequests = {2}

\* the promise of a heartbeat probe was rejected in the last task
ProbeFailed(set) ==
    \E e \in set :
        \/ e[2] = <<"MCP request timeout", "system.ping">>
        \/ /\ lastOp'.op = "heartbeat"
           /\ e[2] = <<"send failed">>
        \/ /\ lastOp'.op = "message"
           /\ e[2] = <<"MCP Error">>
           /\ requests[e[1]].method = "system.ping"

\* C24: a task in which a heartbeat probe fails (its deadline expires, the
\* server answers it with an error, or the transport throws on send) changes
\* neither the state nor the attempt counter and arms no reconnection timer;
\* the scheduler arms a timer only in the handler of an abnormal close event
\* or when a connect() call made by a reconnection timer fails.
C24_ProbeFailureNoReconnect ==
    [][/\ ProbeFailed(settled') =>
             /\ connectionState' = connectionState
             /\ reconnectAttempts' = reconnectAttempts
             /\ reconnectTimers' = reconnectTimers
             /\ scheduled' = <<>>
             /\ emitted' = <<>>
       /\ scheduled' # <<>> =>
             \/ /\ lastOp'.op = "close"
                /\ socks[lastOp'.arg].code # NORMAL_CLOSURE
             \/ /\ lastOp'.op \in {"error", "connectionTimeout"}
                /\ socks[lastOp'.arg].waiter = "reconnect"
             \/ /\ lastOp'.op = "reconnectTimer"
                /\ wsEnv = "badEndpoint"]_vars

\* C24 witness: the deadline of heartbeat probe 2 has expired while the
\* client was connected, and the client is still connected
C24_Witness ==
    /\ lastOp.op = "requestTimeout"
    /\ settled = {<<lastOp.arg, <<"MCP request timeout", "system.ping">>>>}
    /\ connectionState = "connected"
    /\ heartbeatInterval

\* C25: under FairSpec, whenever the state is reconnecting, the client
\* eventually is in state connected or error, or disconnect() is called.
C25_ReconnectionEnds ==
    (connectionState = "reconnecting") ~>
        (connectionState \in {"connected", "error"} \/ lastOp.op = "disconnect")

\* C25 witness: every attempt failed; the connection-open timer of the last
\* one rejected its connect(), the timer's catch called the scheduler, which
\* found the ceiling reached and set error
C25_Witness ==
    /\ lastOp.op = "connectionTimeout"
    /\ reconnectAttempts = maxReconnectAttempts
    /\ connectionState = "error"
    /\ emitted = <<"error">>

\* C26 (as claimed): when the handler of an abnormal close event finds the
\* ceiling reached, it does not emit error again for a failure whose error
\* notification has already been emitted (the state is error), and it
\* rejects no pending request.
C26_ExhaustionSurfacedOnce ==
    [][(/\ lastOp'.op = "close"
        /\ socks[lastOp'.arg].code # NORMAL_CLOSURE
        /\ reconnectAttempts = maxReconnectAttempts
        /\ connectionState = "error") =>
          /\ \A i \in 1..Len(emitted') : emitted'[i] # "error"
          /\ settled' = {}]_vars

\* C27 (as claimed): at any time at most one reconnection is under way,
\* as an armed reconnection delay timer or as a connect() call of such a
\* timer whose promise is pending.
C27_OneReconnectionAtATime ==
    reconnectTimers + Cardinality({s \in Slots : socks[s].waiter = "reconnect"}) <= 1

\* C28 (as claimed): the intervals that are armed are exactly the one the
\* heartbeat handle records, so there is at most one and stopHeartbeat()
\* cancels it.
C28_OneRecordedHeartbeat ==
    intervals = IF heartbeatInterval THEN 1 ELSE 0

\* C29 (as claimed): the open, close or error event of a socket that is not
\* the one this.websocket refers to changes neither the state, nor the
\* attempt counter, nor the heartbeat, nor the pending map, emits no
\* notification and arms no reconnection timer.
C29_StaleEventsIgnored ==
    [][(lastOp'.op \in {"open", "close", "error"} /\ lastOp'.arg # websocket) =>
          /\ connectionState' = connectionState
          /\ reconnectAttempts' = reconnectAttempts
          /\ heartbeatInterval' = heartbeatInterval
          /\ intervals' = intervals
          /\ pendingRequests' = pendingRequests
          /\ emitted' = <<>>
          /\ scheduled' = <<>>]_vars

\* C30: in every reachable state the pending map holds exactly the
\* requests whose promise is unsettled, the armed deadline timers are
\* exactly those of the entries of the map, and getStats().pendingRequests
\* is the size of the map.
C30_PendingMapExact ==
    /\ pendingRequests = {id \in Ids : requests[id].outcome = "pending"}
    /\ \A id \in Ids : id \in pendingRequests <=>
          (requests[id].outcome # "unallocated" /\ requests[id].settles = 0)
    /\ reqTimers = pendingRequests
    /\ getStats(Cur).pendingRequests = Cardinality(pendingRequests)

\* C30 witness: the transport threw while request 2 was being sent; its
\* promise is rejected, its entry and timer are gone, request 1 is pending
C30_Witness ==
    /\ lastOp.op = "send"
    /\ settled = {<<2, <<"send failed">>>>}
    /\ pendingRequests = {1}
    /\ reqTimers = {1}
    /\ getStats(Cur).pendingRequests = 1

====
